---- MODULE Spec2Model ----
(***************************************************************************)
(* A model of two parts of Textual:                                        *)
(*                                                                         *)
(*   - textual/_resolve.py: resolve(), which divides `total` cells among a *)
(*     list of Scalar dimensions (cells, percent, fr) separated by a       *)
(*     gutter and returns (offset, length) pairs;                          *)
(*   - textual/_command_palette.py: CommandPalette, whose command list is  *)
(*     filled by hits tagged with the request that produced them.          *)
(*                                                                         *)
(* Fractions are pairs <<numerator, denominator>> in lowest terms with a   *)
(* positive denominator, as fractions.Fraction keeps them.  A Python float *)
(* is a pair <<m, e>> standing for m / 2^e; every float of the model and   *)
(* every sum of them is far below 2^53, so float addition is exact here.   *)
(***************************************************************************)
EXTENDS Integers, Sequences, FiniteSets

VARIABLES
    dimensions,         \* resolve: the list of Scalars
    total,              \* resolve: total space to divide
    gutter,             \* resolve: gutter between tracks
    pc,                 \* "call" before resolve ran, "done" after
    outcome,            \* "ok", or the exception resolve raised
    results,            \* resolve's return value, <<>> when it raised
    current_request,    \* CommandPalette._current_request
    options,            \* the CommandList's options, each tagged with its request
    list_visible,       \* CommandPalette._list_visible
    partials,           \* request ids bound into a HitsAdder handed to a source
    next_uuid,          \* the next value uuid4() returns
    event               \* the handler that ran last, and its arguments

resolveVars == <<dimensions, total, gutter, pc, outcome, results>>
paletteVars == <<current_request, options, list_visible, partials, next_uuid, event>>
vars == <<dimensions, total, gutter, pc, outcome, results,
          current_request, options, list_visible, partials, next_uuid, event>>

----------------------------------------------------------------------------
(* Bounds *)

MaxTracks == 3
MaxTotal == 20
MaxGutter == 1
MaxRequests == 3
MaxOptions == 3

----------------------------------------------------------------------------
(* fractions.Fraction *)

Abs(n) == IF n < 0 THEN 0 - n ELSE n

RECURSIVE GCD(_, _)
GCD(a, b) == IF b = 0 THEN a ELSE GCD(b, a % b)

Frac(n, d) ==
    LET s == IF d < 0 THEN 0 - 1 ELSE 1
        g == GCD(Abs(n), Abs(d))
    IN  <<(s * n) \div g, (s * d) \div g>>

RAdd(x, y) == Frac(x[1] * y[2] + y[1] * x[2], x[2] * y[2])
RSub(x, y) == Frac(x[1] * y[2] - y[1] * x[2], x[2] * y[2])
RMul(x, y) == Frac(x[1] * y[1], x[2] * y[2])
RDiv(x, y) == Frac(x[1] * y[2], x[2] * y[1])
RLess(x, y) == x[1] * y[2] < y[1] * x[2]
RMax(x, y) == IF RLess(x, y) THEN y ELSE x
RAbs(x) == <<Abs(x[1]), x[2]>>
RInt(n) == <<n, 1>>
IsInt(x) == x[2] = 1

RCeil(x) == 0 - ((0 - x[1]) \div x[2])
RFloor(x) == x[1] \div x[2]

None == <<0, 0>>

----------------------------------------------------------------------------
(* Python floats, m / 2^e *)

Pow2(e) == IF e = 0 THEN 1 ELSE IF e = 1 THEN 2 ELSE 4

Float(m, e) == <<m, e>>

FloatAdd(a, b) ==
    LET e == IF a[2] > b[2] THEN a[2] ELSE b[2]
    IN  <<a[1] * Pow2(e - a[2]) + b[1] * Pow2(e - b[2]), e>>

from_float(f) == Frac(f[1], Pow2(f[2]))

RECURSIVE FloatSum(_)
FloatSum(values) ==
    IF values = <<>> THEN Float(0, 0)
    ELSE FloatAdd(FloatSum(SubSeq(values, 1, Len(values) - 1)), values[Len(values)])

----------------------------------------------------------------------------
(* css.scalar.Scalar *)

SizeWidth == 40

Cells(m, e) == [unit |-> "cells", value |-> Float(m, e)]
Percent(m, e) == [unit |-> "percent", value |-> Float(m, e)]
Flex(m, e) == [unit |-> "fr", value |-> Float(m, e)]

is_fraction(scalar) == scalar.unit = "fr"

resolve_dimension(scalar) ==
    IF scalar.unit = "cells" THEN from_float(scalar.value)
    ELSE RDiv(RMul(from_float(scalar.value), RInt(SizeWidth)), RInt(100))

Scalars ==
    { Cells(1, 0), Cells(3, 0), Percent(1, 0),
      Flex(0, 0), Flex(1, 0), Flex(1, 1) }

TrackLists == UNION { [1..n -> Scalars] : n \in 0..MaxTracks }

----------------------------------------------------------------------------
(* _resolve.resolve *)

Resolved(dims) ==
    [i \in 1..Len(dims) |->
        [scalar |-> dims[i],
         fraction |-> IF is_fraction(dims[i]) THEN None
                      ELSE resolve_dimension(dims[i])]]

RECURSIVE FlexValues(_)
FlexValues(resolved) ==
    IF resolved = <<>> THEN <<>>
    ELSE LET n == Len(resolved)
             rest == FlexValues(SubSeq(resolved, 1, n - 1))
         IN  IF resolved[n].fraction = None
             THEN Append(rest, resolved[n].scalar.value)
             ELSE rest

TotalFraction(resolved) == from_float(FloatSum(FlexValues(resolved)))

TotalGutterLen(g, dims) == g * Len(dims)
TotalGutter(g, dims) == g * (Len(dims) - 1)

RECURSIVE ConsumedFirst(_)
ConsumedFirst(resolved) ==
    IF resolved = <<>> THEN RInt(0)
    ELSE IF resolved[1].fraction # None THEN resolved[1].fraction
    ELSE ConsumedFirst(Tail(resolved))

RECURSIVE Consumed(_)
Consumed(resolved) ==
    IF resolved = <<>> THEN RInt(0)
    ELSE LET n == Len(resolved)
             rest == Consumed(SubSeq(resolved, 1, n - 1))
         IN  IF resolved[n].fraction # None
             THEN RAdd(rest, resolved[n].fraction)
             ELSE rest

RemainingUnclamped(tot, total_gutter, consumed) ==
    RSub(RInt(tot - total_gutter), consumed)
Remaining(tot, total_gutter, consumed) ==
    RMax(RInt(0), RSub(RInt(tot - total_gutter), consumed))

FractionUnit(remaining, total_fraction) == RDiv(remaining, total_fraction)

ResolvedFractions(dims, tot, g) ==
    LET resolved == Resolved(dims)
        total_fraction == TotalFraction(resolved)
    IN  IF total_fraction # RInt(0)
        THEN LET total_gutter == TotalGutter(g, dims)
                 consumed == Consumed(resolved)
                 remaining == Remaining(tot, total_gutter, consumed)
                 fraction_unit == FractionUnit(remaining, total_fraction)
             IN  [i \in 1..Len(resolved) |->
                    IF resolved[i].fraction = None
                    THEN RMul(from_float(resolved[i].scalar.value), fraction_unit)
                    ELSE resolved[i].fraction]
        ELSE [i \in 1..Len(resolved) |-> resolved[i].fraction]

InterleaveGutterFirst(fractions, fraction_gutter) ==
    [k \in 1..(2 * Len(fractions)) |->
        IF k % 2 = 1 THEN fraction_gutter ELSE fractions[k \div 2]]
Interleave(fractions, fraction_gutter) ==
    [k \in 1..(2 * Len(fractions)) |->
        IF k % 2 = 1 THEN fractions[(k + 1) \div 2] ELSE fraction_gutter]

RECURSIVE Accumulate(_)
Accumulate(values) ==
    IF values = <<>> THEN <<>>
    ELSE LET n == Len(values)
             before == Accumulate(SubSeq(values, 1, n - 1))
         IN  IF n = 1 THEN <<values[1]>>
             ELSE Append(before, RAdd(before[n - 1], values[n]))

Offsets(fractions, g) ==
    LET sums == Accumulate(Interleave(fractions, RInt(g)))
    IN  <<0>> \o [k \in 1..Len(sums) |-> RFloor(sums[k])]

EvenSlice(s) == [k \in 1..((Len(s) + 1) \div 2) |-> s[2 * k - 1]]
OddSlice(s) == [k \in 1..(Len(s) \div 2) |-> s[2 * k]]

Zip(a, b) ==
    [k \in 1..(IF Len(a) < Len(b) THEN Len(a) ELSE Len(b)) |-> <<a[k], b[k]>>]

LengthsToNextStart(offsets) ==
    LET starts == EvenSlice(offsets)
    IN  [k \in 1..(Len(starts) - 1) |-> starts[k + 1] - starts[k]]
Lengths(offsets) ==
    LET pairs == Zip(EvenSlice(offsets), OddSlice(offsets))
    IN  [k \in 1..Len(pairs) |-> pairs[k][2] - pairs[k][1]]

Results(offsets) == Zip(EvenSlice(offsets), Lengths(offsets))

HasNone(fractions) == \E i \in 1..Len(fractions) : fractions[i] = None

Raised(fractions) ==
    IF ~HasNone(fractions) THEN "ok"
    ELSE IF fractions[1] = None THEN "AttributeError"
    ELSE "TypeError"

Resolve ==
    /\ pc = "call"
    /\ LET fractions == ResolvedFractions(dimensions, total, gutter)
       IN  /\ outcome' = Raised(fractions)
           /\ results' = IF HasNone(fractions) THEN <<>>
                         ELSE Results(Offsets(fractions, gutter))
    /\ pc' = "done"
    /\ UNCHANGED <<dimensions, total, gutter>>
    /\ UNCHANGED paletteVars

----------------------------------------------------------------------------
(* _command_palette.CommandPalette *)

DATA == <<"A bird in the hand", "A chain is only as strong">>

InputValues == UNION { [1..n -> {" ", "a"}] : n \in 0..2 }

RECURSIVE LStrip(_)
LStrip(value) ==
    IF value # <<>> /\ Head(value) = " " THEN LStrip(Tail(value)) ELSE value

RECURSIVE RStrip(_)
RStrip(value) ==
    IF value # <<>> /\ value[Len(value)] = " "
    THEN RStrip(SubSeq(value, 1, Len(value) - 1))
    ELSE value

Strip(value) == RStrip(LStrip(value))

(* The candidates of DATA the Matcher accepts, in DATA's order.  Which ones *)
(* match is the Matcher's business: `matched` is any set of indices.        *)
RECURSIVE Candidates(_, _)
Candidates(matched, n) ==
    IF n = 0 THEN <<>>
    ELSE IF n \in matched THEN Append(Candidates(matched, n - 1), DATA[n])
    ELSE Candidates(matched, n - 1)

command_hunt(matched) == Candidates(matched, Len(DATA))

add_options(list, request_id, hits) ==
    list \o [k \in 1..Len(hits) |-> [request_id |-> request_id, prompt |-> hits[k]]]

ProcessHitsUnguarded(request_id, hits, current, list) ==
    add_options(list, request_id, hits)
ProcessHits(request_id, hits, current, list) ==
    IF request_id = current THEN add_options(list, request_id, hits) ELSE list

(* _input: an Input.Changed event carrying `value`. *)
InputChanged(value) ==
    LET search_value == Strip(value)
    IN  /\ pc = "palette"
        /\ list_visible' = (search_value # <<>>)
        /\ IF search_value # <<>>
           THEN /\ next_uuid <= MaxRequests
                /\ current_request' = next_uuid
                /\ next_uuid' = next_uuid + 1
                /\ partials' = partials \cup {next_uuid}
                /\ \E matched \in SUBSET (1..Len(DATA)) :
                    /\ options' = ProcessHits(next_uuid, command_hunt(matched),
                                              next_uuid, <<>>)
                    /\ event' = [name |-> "_input", request_id |-> next_uuid,
                                 search_value |-> search_value,
                                 hits |-> command_hunt(matched)]
           ELSE /\ options' = <<>>
                /\ event' = [name |-> "_input", request_id |-> current_request,
                             search_value |-> search_value, hits |-> <<>>]
                /\ UNCHANGED <<current_request, next_uuid, partials>>
        /\ UNCHANGED resolveVars

(* A command source calls the HitsAdder it was handed for `request_id`. *)
AddHits(request_id, matched) ==
    /\ pc = "palette"
    /\ request_id \in partials
    /\ request_id = current_request
          => Len(options) + Len(command_hunt(matched)) <= MaxOptions
    /\ options' = ProcessHits(request_id, command_hunt(matched),
                              current_request, options)
    /\ event' = [name |-> "_process_hits", request_id |-> request_id,
                 search_value |-> <<>>, hits |-> command_hunt(matched)]
    /\ UNCHANGED <<current_request, list_visible, partials, next_uuid>>
    /\ UNCHANGED resolveVars

(* _select_command: an option of the list was selected. *)
SelectCommand ==
    /\ pc = "palette"
    /\ options # <<>>
    /\ list_visible' = FALSE
    /\ event' = [name |-> "_select_command", request_id |-> current_request,
                 search_value |-> <<>>, hits |-> <<>>]
    /\ UNCHANGED <<current_request, options, partials, next_uuid>>
    /\ UNCHANGED resolveVars

PaletteIdle ==
    /\ current_request = 0
    /\ options = <<>>
    /\ list_visible = FALSE
    /\ partials = {}
    /\ next_uuid = 1
    /\ event = [name |-> "__init__", request_id |-> 0,
                search_value |-> <<>>, hits |-> <<>>]

Init ==
    /\ dimensions \in TrackLists
    /\ total \in (0 - 1)..MaxTotal
    /\ gutter \in (0 - 1)..MaxGutter
    /\ pc = "call"
    /\ outcome = "ok"
    /\ results = <<>>
    /\ PaletteIdle

Next == Resolve

Spec == Init /\ [][Next]_vars

PaletteInit ==
    /\ dimensions = <<>>
    /\ total = 0
    /\ gutter = 0
    /\ pc = "palette"
    /\ outcome = "ok"
    /\ results = <<>>
    /\ PaletteIdle

PaletteNext ==
    \/ \E value \in InputValues : InputChanged(value)
    \/ \E request_id \in 1..MaxRequests, matched \in SUBSET (1..Len(DATA)) :
          AddHits(request_id, matched)
    \/ SelectCommand

PaletteSpec == PaletteInit /\ [][PaletteNext]_vars

----------------------------------------------------------------------------
(* Vocabulary of the properties of resolve *)

Done == pc = "done"
Valid == total >= 0 /\ gutter >= 0
NumTracks == Len(dimensions)
FlexTracks == { i \in 1..NumTracks : dimensions[i].unit = "fr" }
ConcreteTracks == (1..NumTracks) \ FlexTracks
Weight(i) == from_float(dimensions[i].value)
Size(i) == resolve_dimension(dimensions[i])
Offset(i) == results[i][1]
Length(i) == results[i][2]

RECURSIVE WeightUpTo(_)
WeightUpTo(n) ==
    IF n = 0 THEN RInt(0)
    ELSE IF n \in FlexTracks THEN RAdd(WeightUpTo(n - 1), Weight(n))
    ELSE WeightUpTo(n - 1)

WeightSum == WeightUpTo(NumTracks)

RECURSIVE SizeUpTo(_)
SizeUpTo(n) ==
    IF n = 0 THEN RInt(0)
    ELSE IF n \in ConcreteTracks THEN RAdd(SizeUpTo(n - 1), Size(n))
    ELSE SizeUpTo(n - 1)

(* What the concrete tracks and the gutters ask for. *)
Requested == RAdd(SizeUpTo(NumTracks), RInt(gutter * (NumTracks - 1)))
OverRequested == ~RLess(Requested, RInt(total))

Tiles ==
    /\ Len(results) = NumTracks
    /\ NumTracks > 0 => Offset(1) = 0
    /\ \A i \in 1..(NumTracks - 1) : Offset(i + 1) = Offset(i) + Length(i) + gutter

WithinOne(n, x) == RLess(RAbs(RSub(RInt(n), x)), RInt(1))

(* C1: for a non-empty track list with total >= 0, gutter >= 0 and flex     *)
(* weights of positive sum (or no flex track), resolve returns one pair per *)
(* track with offset[0] = 0 and offset[i+1] = offset[i] + length[i] +       *)
(* gutter for every consecutive pair.                                       *)
C1_Tiling ==
    (/\ Done
     /\ Valid
     /\ NumTracks > 0
     /\ (FlexTracks = {} \/ RLess(RInt(0), WeightSum)))
    => outcome = "ok" /\ Tiles

C1_Witness ==
    /\ Done
    /\ Valid
    /\ gutter > 0
    /\ NumTracks = 3
    /\ FlexTracks # {}
    /\ \E i \in ConcreteTracks : ~IsInt(Size(i))
    /\ RLess(RInt(0), WeightSum)
    /\ outcome = "ok"
    /\ Offset(3) = Offset(2) + Length(2) + gutter
    /\ Length(2) > 0

(* C2: for total >= 0 and gutter >= 0, every length resolve returns is      *)
(* >= 0, also when the concrete sizes plus gutters exceed total.            *)
C2_NonNegative ==
    (Done /\ Valid /\ outcome = "ok")
    => \A i \in 1..Len(results) : Length(i) >= 0

C2_Witness ==
    /\ Done
    /\ Valid
    /\ outcome = "ok"
    /\ RLess(RInt(total), Requested)
    /\ RLess(RInt(0), WeightSum)
    /\ ConcreteTracks # {}
    /\ \A i \in FlexTracks : Length(i) = 0

(* C3: when the concrete tracks plus gutters request at least total,        *)
(* resolve raises no error, every flex track gets length 0 and every        *)
(* concrete track of integer size keeps that size as its length.            *)
C3_OverRequest ==
    (Done /\ Valid /\ OverRequested)
    => /\ outcome = "ok"
       /\ Len(results) = NumTracks
       /\ \A i \in FlexTracks : Length(i) = 0
       /\ \A i \in ConcreteTracks : IsInt(Size(i)) => Length(i) = Size(i)[1]

TwoFlex ==
    /\ NumTracks = 2
    /\ FlexTracks = {1, 2}
    /\ RLess(RInt(0), Weight(1))
    /\ RLess(RInt(0), Weight(2))

Share(i) == RDiv(RMul(RInt(total - gutter), Weight(i)), WeightSum)

Proportional ==
    /\ outcome = "ok"
    /\ Len(results) = 2
    /\ WithinOne(Length(1), Share(1))
    /\ WithinOne(Length(2), Share(2))
    /\ Length(1) + Length(2) + gutter = total

C5_Original ==
    (Done /\ Valid /\ FlexTracks = {})
    => /\ outcome = "ok"
       /\ Len(results) = NumTracks
       /\ \A i \in 1..NumTracks : RInt(Length(i)) = Size(i)

(* C5 as amended: with no flex track, every length is within one unit of    *)
(* the concrete resolution of its Scalar, and equals it when that           *)
(* resolution is an integer.                                                *)
C5_PassThrough ==
    (Done /\ Valid /\ FlexTracks = {})
    => /\ outcome = "ok"
       /\ Len(results) = NumTracks
       /\ \A i \in 1..NumTracks :
            /\ WithinOne(Length(i), Size(i))
            /\ IsInt(Size(i)) => Length(i) = Size(i)[1]

C5_Witness ==
    /\ Done
    /\ Valid
    /\ FlexTracks = {}
    /\ NumTracks >= 2
    /\ gutter > 0
    /\ outcome = "ok"
    /\ \E i \in 1..NumTracks : IsInt(Size(i)) /\ Length(i) = Size(i)[1]
    /\ \E i \in 1..NumTracks : ~IsInt(Size(i)) /\ RInt(Length(i)) # Size(i)

Scenario1 ==
    /\ dimensions = <<Cells(3, 0), Flex(1, 0), Cells(1, 0)>>
    /\ total = 20
    /\ gutter = 1

(* C6 as stated: [Cells(3), Flex(1), Cells(1)], total 20, gutter 1 gives    *)
(* (0,3), (4,13), (18,1).                                                   *)
C6_Original ==
    (Done /\ Scenario1) => results = << <<0, 3>>, <<4, 13>>, <<18, 1>> >>

(* C6 as amended: it gives (0,3), (4,14), (19,1).                           *)
C6_Scenario1 ==
    (Done /\ Scenario1)
    => outcome = "ok" /\ results = << <<0, 3>>, <<4, 14>>, <<19, 1>> >>

C6_Witness == Done /\ Scenario1 /\ Len(results) = 3

Scenario2 ==
    /\ dimensions = <<Flex(1, 0), Flex(1, 0)>>
    /\ total = 20
    /\ gutter = 1

(* C7 as stated: earlier tracks absorb the extra unit of a fractional       *)
(* share; [Flex(1), Flex(1)], total 20, gutter 1 gives (0,10), (11,9).      *)
C7_Original ==
    (Done /\ Scenario2) => results = << <<0, 10>>, <<11, 9>> >>

(* C7 as amended: later tracks absorb the extra unit: two flex tracks of    *)
(* equal positive weight get length[0] <= length[1] <= length[0] + 1, and   *)
(* [Flex(1), Flex(1)], total 20, gutter 1 gives (0,9), (10,10).             *)
C7_RoundingOrder ==
    /\ (Done /\ Scenario2)
       => outcome = "ok" /\ results = << <<0, 9>>, <<10, 10>> >>
    /\ (Done /\ Valid /\ TwoFlex /\ Weight(1) = Weight(2))
       => /\ outcome = "ok"
          /\ Length(1) <= Length(2)
          /\ Length(2) <= Length(1) + 1

C7_Witness == Done /\ Scenario2 /\ Len(results) = 2 /\ Length(1) < Length(2)

(* C8: a call with total < 0 or gutter < 0 is rejected with InvalidArgument *)
(* and returns no list.                                                     *)
C8_Rejects ==
    (Done /\ (total < 0 \/ gutter < 0))
    => outcome = "InvalidArgument" /\ results = <<>>

(* C9: whenever the flex weights sum to 0, flex tracks of weight 0          *)
(* included, resolve returns one pair per track, tiling, with the concrete  *)
(* tracks keeping their resolved sizes.                                     *)
C9_ZeroWeight ==
    (Done /\ Valid /\ WeightSum = RInt(0))
    => /\ outcome = "ok"
       /\ Tiles
       /\ \A i \in ConcreteTracks : IsInt(Size(i)) => Length(i) = Size(i)[1]

----------------------------------------------------------------------------
(* Properties of the command palette *)

OnlyCurrentHits ==
    /\ current_request = next_uuid - 1
    /\ \A i \in 1..Len(options) : options[i].request_id = current_request

InputClears ==
    event'.name = "_input"
    => /\ options' = [k \in 1..Len(event'.hits) |->
                        [request_id |-> current_request', prompt |-> event'.hits[k]]]
       /\ event'.search_value = <<>> => options' = <<>>

StaleHitsDiscarded ==
    (event'.name = "_process_hits" /\ event'.request_id # current_request)
    => options' = options

(* C10: the command list holds only hits delivered under the request id     *)
(* created by the most recent non-empty input change; each Input.Changed    *)
(* clears what the list held, and hits delivered under an older request id  *)
(* leave the list unchanged.                                                *)
C10_StaleHits ==
    /\ []OnlyCurrentHits
    /\ [][InputClears /\ StaleHitsDiscarded]_vars

C10_Witness ==
    /\ event.name = "_process_hits"
    /\ event.request_id # current_request
    /\ event.hits # <<>>
    /\ options # <<>>

====
